---- MODULE Spec2Model ----
(***************************************************************************)
(* Model of DistRDF/CppWorkflow.py: translation of a DistRDF computation   *)
(* graph into C++ source text, the process-wide cache of compiled          *)
(* workflow functions, and the execution / reconciliation of the results.  *)
(*                                                                         *)
(* Python str values are kept as sequences of tokens whose concatenation   *)
(* (Join) is the byte string; ".root" only ever occurs as one token, so    *)
(* str.partition(".root") is a search for that token.  Generated C++ text  *)
(* is a flat string built with \o, so text equality is byte equality.      *)
(***************************************************************************)
EXTENDS Integers, Sequences, FiniteSets, TLC

\* ------------------------------------------------------------------ bounds
MaxNodes == 2      \* nodes of a graph besides the head node
MaxCycles == 2     \* CppWorkflow objects constructed in one process
MaxExec == 2       \* execute() calls in one process
MaxStarts == 3     \* cycles started by the threads of one process

\* ------------------------------------------------------- python values
\* t: the Python type; s: the tokens of a str; n: the value of an int;
\* e: the elements of a tuple or list
PyStr(toks) == [t |-> "str", s |-> toks, n |-> 0, e |-> <<>>]
PyInt(n) == [t |-> "int", s |-> <<>>, n |-> n, e |-> <<>>]
PyTuple(elems) == [t |-> "tuple", s |-> <<>>, n |-> 0, e |-> elems]
PyList(elems) == [t |-> "list", s |-> <<>>, n |-> 0, e |-> elems]

RECURSIVE Join(_)
Join(toks) == IF toks = <<>> THEN "" ELSE Head(toks) \o Join(Tail(toks))

Digit(d) ==
  CASE d = 0 -> "0" [] d = 1 -> "1" [] d = 2 -> "2" [] d = 3 -> "3" [] d = 4 -> "4"
    [] d = 5 -> "5" [] d = 6 -> "6" [] d = 7 -> "7" [] d = 8 -> "8" [] d = 9 -> "9"

\* str(n) / "{}".format(n) of a non-negative int
RECURSIVE ToStr(_)
ToStr(n) == IF n < 10 THEN Digit(n) ELSE ToStr(n \div 10) \o Digit(n % 10)

NoKwargs == [k \in {} |-> TRUE]
\* kwargs[key] = val
SetKw(kwargs, key, val) ==
  [k \in DOMAIN kwargs \cup {key} |-> IF k = key THEN val ELSE kwargs[k]]

\* list.append / list[i] = x
SetArg(args, i, val) == [args EXCEPT ![i + 1] = val]

FUNCTION_NAME == "__RDF_WORKFLOW_FUNCTION__"
FUNCTION_NAMESPACE == "DistRDF_Internal"

\* --------------------------------------------------- Graph Materializer
\* filename = args[1].partition(".root")[0]
RECURSIVE PartitionHead(_)
PartitionHead(toks) ==
  IF toks = <<>> THEN <<>>
  ELSE IF Head(toks) = ".root" THEN <<>>
  ELSE <<Head(toks)>> \o PartitionHead(Tail(toks))

\* "{}_{}.root".format(filename, range_id)
\* (variant: the range id is left out of the path)
PathWithRangeDropId(path, range_id) == PartitionHead(path.s) \o <<".root">>
PathWithRange(path, range_id) ==
  PartitionHead(path.s) \o <<"_", ToStr(range_id), ".root">>

SnapshotLazyOp(operation, range_id) ==
  LET a1 == SetArg(operation.args, 1, PyStr(PathWithRange(operation.args[2], range_id)))
      a2 == IF Len(a1) = 2 THEN Append(a1, PyStr(<<>>)) ELSE a1
      a3 == IF Len(a2) = 4 THEN SetArg(a2, 3, PyStr(<<"lazy_options">>))
            ELSE Append(a2, PyStr(<<"lazy_options">>))
  IN [operation EXCEPT !.args = a3]

AsNumpyLazyOp(operation) ==
  [operation EXCEPT !.kwargs = SetKw(operation.kwargs, "lazy", TRUE)]

\* ret: the operation handed to the translator; orig: the graph's own
\* operation object after the call (deepcopy leaves it alone).
CreateLazyOpIfNeeded(operation, range_id) ==
  CASE operation.kind = "AsNumpy" ->
         [ret |-> AsNumpyLazyOp(operation), orig |-> AsNumpyLazyOp(operation)]
    [] operation.kind = "Snapshot" ->
         [ret |-> SnapshotLazyOp(operation, range_id), orig |-> operation]
    [] OTHER -> [ret |-> operation, orig |-> operation]

\* ------------------------------------------------------ Code Translator
RECURSIVE TupleElems(_, _)
TupleElems(elems, nelem) ==
  IF nelem > Len(elems) THEN ""
  ELSE (IF nelem > 1 THEN "," ELSE "")
       \o (IF elems[nelem].t = "str"
           THEN "\"" \o Join(elems[nelem].s) \o "\""
           ELSE ToStr(elems[nelem].n))
       \o TupleElems(elems, nelem + 1)

\* the text one argument contributes (lines 299-312)
ArgText(arg) ==
  IF arg.t = "str" /\ Join(arg.s) = "lazy_options" THEN "lazy_options"
  ELSE IF arg.t = "str" THEN "\"" \o Join(arg.s) \o "\""
  ELSE IF arg.t = "tuple" THEN "{" \o TupleElems(arg.e, 1) \o "}"
  ELSE ""

RECURSIVE ArgsFrom(_, _)
ArgsFrom(args, narg) ==
  IF narg > Len(args) THEN ""
  ELSE (IF narg > 1 THEN ", " ELSE "") \o ArgText(args[narg]) \o ArgsFrom(args, narg + 1)

GetArgsCall(operation) == ArgsFrom(operation.args, 1)

GetArgsTemplate(operation) == ""

Stmt(s, node, parent, name) == [s |-> s, node |-> node, parent |-> parent, name |-> name]

\* Translation state of one CppWorkflow: nodes_code, res_ptr_id, py_actions,
\* snapshots as in the class; stmts is the meaning of nodes_code for the
\* compiled function; op_calls lists the op_call strings emitted.
NewTranslation ==
  [nodes_code |-> "", res_ptr_id |-> 0, py_actions |-> <<>>, snapshots |-> <<>>,
   stmts |-> <<>>, op_calls |-> <<>>]

HandleOp(st, operation, node_id, parent_id) ==
  LET op_call == "node" \o ToStr(parent_id) \o "." \o operation.name
                 \o GetArgsTemplate(operation) \o "(" \o GetArgsCall(operation) \o ")"
  IN [st EXCEPT
        !.nodes_code = @ \o "\n  auto node" \o ToStr(node_id) \o " = " \o op_call \o ";",
        !.stmts = Append(@, Stmt("define", node_id, parent_id, operation.name)),
        !.op_calls = Append(@, op_call)]

HandleAction(st, operation, node_id, parent_id) ==
  LET s1 == HandleOp(st, operation, node_id, parent_id)
      n == ToStr(node_id)
      err == "Cannot get type of result " \o n \o " of action " \o operation.name
             \o " during generation of RDF C++ workflow"
  IN [s1 EXCEPT
        !.nodes_code = @ \o "\n  result_handles.emplace_back(node" \o n \o ");"
           \o "\n  auto c" \o n \o " = TClass::GetClass(typeid(node" \o n \o "));"
           \o "\n  if (c" \o n \o " == nullptr)"
           \o "\n    throw std::runtime_error(\"" \o err \o "\");"
           \o "\n  result_types.emplace_back(c" \o n \o "->GetName());",
        !.stmts = @ \o <<Stmt("emplace_result", node_id, parent_id, operation.name),
                         Stmt("emplace_type", node_id, parent_id, operation.name)>>,
        !.res_ptr_id = @ + 1]

\* py_actions keeps a reference to the operation object: node_id names the
\* graph node that holds it.
HandleAsNumpy(st, operation, node_id, parent_id) ==
  [st EXCEPT
     !.py_actions = Append(@, [res_id |-> st.res_ptr_id, node |-> node_id]),
     !.nodes_code = @ \o "\n  output_nodes.push_back(ROOT::RDF::AsRNode(node"
        \o ToStr(parent_id) \o "));"
        \o "\n  result_handles.emplace_back();"
        \o "\n  result_types.emplace_back();",
     !.stmts = @ \o <<Stmt("push_node", node_id, parent_id, operation.name),
                      Stmt("emplace_result_empty", node_id, parent_id, operation.name),
                      Stmt("emplace_type_empty", node_id, parent_id, operation.name)>>,
     !.res_ptr_id = @ + 1]

\* (variant: the slot is read after _handle_action advanced it)
HandleSnapshotLate(st, operation, node_id, parent_id) ==
  LET s1 == HandleAction(st, operation, node_id, parent_id)
  IN [s1 EXCEPT !.snapshots = Append(@, [res_id |-> s1.res_ptr_id,
                   treename |-> operation.args[1], filename |-> operation.args[2]])]
HandleSnapshot(st, operation, node_id, parent_id) ==
  HandleAction(
    [st EXCEPT !.snapshots = Append(@, [res_id |-> st.res_ptr_id,
                   treename |-> operation.args[1], filename |-> operation.args[2]])],
    operation, node_id, parent_id)

\* singledispatch on the class of the operation
Dispatch(st, operation, node_id, parent_id) ==
  CASE operation.kind = "Snapshot" -> HandleSnapshot(st, operation, node_id, parent_id)
    [] operation.kind = "AsNumpy" -> HandleAsNumpy(st, operation, node_id, parent_id)
    [] operation.kind = "Action" -> HandleAction(st, operation, node_id, parent_id)
    [] OTHER -> HandleOp(st, operation, node_id, parent_id)

AddNode(st, operation, node_id, parent_id, range_id) ==
  Dispatch(st, CreateLazyOpIfNeeded(operation, range_id).ret, node_id, parent_id)

\* the loop of _generate_computation_graph over nodes 1..Len(g), in order
RECURSIVE GenerateFrom(_, _, _, _)
GenerateFrom(st, g, i, range_id) ==
  IF i > Len(g) THEN st
  ELSE GenerateFrom(AddNode(st, g[i].operation, i, g[i].parent_id, range_id),
                    g, i + 1, range_id)

GenerateComputationGraph(g, range_id) == GenerateFrom(NewTranslation, g, 1, range_id)

\* the graph's operation objects after a translation pass
GraphAfterTranslation(g, range_id) ==
  [i \in 1..Len(g) |->
     [g[i] EXCEPT !.operation = CreateLazyOpIfNeeded(g[i].operation, range_id).orig]]

Includes ==
  "\n#include <tuple>\n#include <utility>\n#include <vector>"
  \o "\n#include \"ROOT/RDataFrame.hxx\"\n#include \"ROOT/RDFHelpers.hxx\""
  \o "\n#include \"ROOT/RResultHandle.hxx\"\n"

\* _lambdas is never appended to
Lambdas == ""

\* the template of _get_code with the function name func_name
CodeNamed(nodes_code, func_name) ==
  "\n" \o Includes \o "\n\nnamespace " \o FUNCTION_NAMESPACE \o " {\n\n"
  \o "using CppWorkflowResult = std::tuple<std::vector<ROOT::RDF::RResultHandle>,\n"
  \o "                          std::vector<std::string>,\n"
  \o "                          std::vector<ROOT::RDF::RNode>>;\n\n"
  \o "CppWorkflowResult " \o func_name \o "(ROOT::RDF::RNode &node0)\n{\n"
  \o "  std::vector<ROOT::RDF::RResultHandle> result_handles;\n"
  \o "  std::vector<std::string> result_types;\n"
  \o "  std::vector<ROOT::RDF::RNode> output_nodes;\n\n"
  \o "  // To make Snapshots lazy\n"
  \o "  ROOT::RDF::RSnapshotOptions lazy_options;\n"
  \o "  lazy_options.fLazy = true;\n\n"
  \o Lambdas \o "\n\n" \o nodes_code \o "\n\n"
  \o "  return { std::move(result_handles), std::move(result_types), std::move(output_nodes) };\n"
  \o "}\n\n} // namespace " \o FUNCTION_NAMESPACE \o "\n"

GetCode(nodes_code) == CodeNamed(nodes_code, FUNCTION_NAME)

\* code.replace(_FUNCTION_NAME, _FUNCTION_NAME + str(this_wf_id), 1): the first
\* occurrence of the name is the one the template writes
FinalCode(nodes_code, this_wf_id) ==
  CodeNamed(nodes_code, FUNCTION_NAME \o ToStr(this_wf_id))

\* ------------------------------------------------------------ the inputs
Op(kind, name, args, kwargs) == [kind |-> kind, name |-> name, args |-> args, kwargs |-> kwargs]
NoOp == Op("", "", <<>>, NoKwargs)
PyObject == [t |-> "object", s |-> <<>>, n |-> 0, e |-> <<>>]
PyNone == [t |-> "None", s |-> <<>>, n |-> 0, e |-> <<>>]

OpFilter == Op("Operation", "Filter", <<PyStr(<<"x>0">>)>>, NoKwargs)
OpRange == Op("Operation", "Range", <<PyInt(0), PyInt(10)>>, NoKwargs)
OpSum == Op("Action", "Sum", <<PyStr(<<"x">>)>>, NoKwargs)
OpHisto1D ==
  Op("Action", "Histo1D",
     <<PyTuple(<<PyStr(<<"h">>), PyStr(<<"t">>), PyInt(10), PyInt(0), PyInt(1)>>),
       PyStr(<<"x">>)>>, NoKwargs)
OpSnapshot2 == Op("Snapshot", "Snapshot", <<PyStr(<<"t">>), PyStr(<<"out", ".root">>)>>, NoKwargs)
OpSnapshot4 ==
  Op("Snapshot", "Snapshot",
     <<PyStr(<<"t">>), PyStr(<<"d", ".root", "/", "out", ".root">>), PyStr(<<"x.*">>), PyObject>>,
     NoKwargs)
OpAsNumpy == Op("AsNumpy", "AsNumpy", <<PyList(<<PyStr(<<"y">>)>>)>>, NoKwargs)

Ops == {OpFilter, OpRange, OpSum, OpHisto1D, OpSnapshot2, OpSnapshot4, OpAsNumpy}

\* partition ids handed to the workers
RangeIds == {1, 12}

\* a node hangs off the head node (id 0) or off an earlier transformation
Parents(g) == {0} \cup {j \in 1..Len(g) : g[j].operation.kind = "Operation"}

RECURSIVE GraphsOfLen(_)
GraphsOfLen(n) ==
  IF n = 0 THEN {<<>>}
  ELSE UNION {{Append(g, [operation |-> op, parent_id |-> p]) : op \in Ops, p \in Parents(g)}
              : g \in GraphsOfLen(n - 1)}

Graphs == UNION {GraphsOfLen(n) : n \in 0..MaxNodes}

\* ------------------------------------------------------------- the state
VARIABLES
  graph0,          \* the graph as the graph-construction layer built it
  graph,           \* graph_nodes without the head node: [operation, parent_id]
  CACHED_WFS,      \* CppWorkflow._CACHED_WFS: code -> workflow id
  WfIdCounter,     \* CppWorkflow._WF_ID_COUNTER (WF_ is reserved in TLA+)
  files,           \* source files on disk: name -> [content, what it defines]
  nWrites,         \* how many times a source file was written
  compileLog,      \* the calls of gSystem.CompileMacro, in order
  loaded,          \* workflow functions loaded in the process: id -> statements
  wf,              \* <<>> or <<the live CppWorkflow object>>
  nWorkflows,      \* CppWorkflow objects constructed so far
  cycles,          \* what each execute() call did and returned, in order
  thr,             \* threaded workers: where each is in its cycle, and its locals
  nStarted,        \* cycles started by the threads
  raced            \* a thread missed in the cache while another was compiling

vars == <<graph0, graph, CACHED_WFS, WfIdCounter, files, nWrites, compileLog, loaded, wf,
          nWorkflows, cycles, thr, nStarted, raced>>
seqVars == <<wf, nWorkflows, cycles>>
concVars == <<thr, nStarted, raced>>

NoId == -1
Pid == 4242

\* ------------------------------------------------------- Artifact Cache
ProcessState ==
  [cache |-> CACHED_WFS, counter |-> WfIdCounter, files |-> files, writes |-> nWrites,
   log |-> compileLog, loaded |-> loaded]

\* _CACHED_WFS.get(code)
\* (variant: the cache is never consulted)
CacheGetNever(cache, code) == NoId
CacheGet(cache, code) == IF code \in DOMAIN cache THEN cache[code] ELSE NoId

CppFileName(this_wf_id) == "rdfworkflow_" \o ToStr(this_wf_id) \o "_" \o ToStr(Pid) \o ".cxx"

\* with open(cpp_file_name, 'w') as f: f.write(final_code)
WriteFile(ps, name, content, stmts) ==
  [ps EXCEPT !.files = (name :> [content |-> content, stmts |-> stmts]) @@ @,
             !.writes = @ + 1]

\* gSystem.CompileMacro(cpp_file_name, 'O'): compiles the file and, when that
\* succeeds, loads the function it defines
\* the function the file on disk defines; code and this_wf_id are recorded
\* for the caller that asked
CompileMacro(ps, name, code, this_wf_id, ok) ==
  [ps EXCEPT
     !.log = Append(@, [code |-> code, wf_id |-> this_wf_id, file |-> name, ok |-> ok,
                        content |-> ps.files[name].content]),
     !.loaded = IF ok THEN (this_wf_id :> ps.files[name].stmts) @@ @ ELSE @]

\* CppWorkflow._CACHED_WFS[code] = this_wf_id
\* (variant: the cache keeps only the newest workflow)
CacheInsertOnly(ps, code, this_wf_id) == [ps EXCEPT !.cache = (code :> this_wf_id)]
CacheInsert(ps, code, this_wf_id) == [ps EXCEPT !.cache = (code :> this_wf_id) @@ @]

\* CppWorkflow._WF_ID_COUNTER += 1: the attribute is loaded, one is added,
\* the attribute is stored; loadedValue is what the load saw
\* (variant: the counter is stored back without the increment)
StoreCounterSame(ps, loadedValue) == [ps EXCEPT !.counter = loadedValue]
StoreCounter(ps, loadedValue) == [ps EXCEPT !.counter = loadedValue + 1]

CompileError(name) == "Error compiling the RDataFrame workflow file: " \o name

\* (variant: the cache entry is inserted before the compiler answered)
CompileInsertFirst(ps, w, code, ok) ==
  LET cached == CacheGet(ps.cache, code)
      this_wf_id == ps.counter
      name == CppFileName(this_wf_id)
      inserted == CacheInsert(ps, code, this_wf_id)
      written == WriteFile(StoreCounter(inserted, inserted.counter), name,
                           FinalCode(w.nodes_code, this_wf_id), w.stmts)
      compiled == CompileMacro(written, name, code, this_wf_id, ok)
  IN IF cached # NoId
     THEN [ps |-> ps, hit |-> TRUE, raised |-> FALSE, error |-> "", ret |-> cached]
     ELSE [ps |-> compiled, hit |-> FALSE, raised |-> ~ok,
           error |-> IF ok THEN "" ELSE CompileError(name),
           ret |-> IF ok THEN this_wf_id ELSE NoId]
\* _compile of workflow w whose application_code is code; ok is the answer
\* of the compiler
Compile(ps, w, code, ok) ==
  LET cached == CacheGet(ps.cache, code)
      this_wf_id == ps.counter
      name == CppFileName(this_wf_id)
      written == WriteFile(ps, name, FinalCode(w.nodes_code, this_wf_id), w.stmts)
      compiled == CompileMacro(written, name, code, this_wf_id, ok)
      inserted == CacheInsert(compiled, code, this_wf_id)
  IN IF cached # NoId
     THEN [ps |-> ps, hit |-> TRUE, raised |-> FALSE, error |-> "", ret |-> cached]
     ELSE IF ~ok
     THEN [ps |-> compiled, hit |-> FALSE, raised |-> TRUE,
           error |-> CompileError(name), ret |-> NoId]
     ELSE [ps |-> StoreCounter(inserted, inserted.counter), hit |-> FALSE,
           raised |-> FALSE, error |-> "", ret |-> this_wf_id]

\* ------------------------------------- Execution & Reconciliation Engine
\* An object held in the result list.  h: what it is; node: the RDF node it
\* was booked on; done: evaluated / materialized; op: the Python-only action
\* that produced it; tree, paths: the fields of a SnapshotResult.
Obj(h, node, done, op, tree, paths) ==
  [h |-> h, node |-> node, done |-> done, op |-> op, tree |-> tree, paths |-> paths]
RResultHandle(node) == Obj("RResultHandle", node, FALSE, NoOp, PyNone, <<>>)
EmptyHandle == Obj("empty", 0, FALSE, NoOp, PyNone, <<>>)
SnapshotResult(treename, paths) == Obj("SnapshotResult", 0, FALSE, NoOp, treename, paths)
\* getattr(n, operation.name)(*operation.args, **operation.kwargs)
PyActionResult(n, operation) == Obj("PyResult", n, FALSE, operation, PyNone, <<>>)

\* TClass::GetClass(typeid(node))->GetName() of the RResultPtr an action returns
ResultClassName(name) ==
  CASE name = "Sum" -> <<"ROOT::RDF::RResultPtr", "<", "double", ">">>
    [] name = "Histo1D" -> <<"ROOT::RDF::RResultPtr", "<", "TH1D", ">">>
    [] name = "Snapshot" ->
         <<"ROOT::RDF::RResultPtr", "<", "ROOT::RDF::RInterface", "<",
           "ROOT::Detail::RDF::RLoopManager,void", ">", " ", ">">>
    [] OTHER -> <<"ROOT::RDF::RResultPtr", "<", "T", ">">>

\* what the compiled function returns: the three vectors its statements fill
RECURSIVE VResults(_)
VResults(stmts) ==
  IF stmts = <<>> THEN <<>>
  ELSE (CASE Head(stmts).s = "emplace_result" -> <<RResultHandle(Head(stmts).node)>>
          [] Head(stmts).s = "emplace_result_empty" -> <<EmptyHandle>>
          [] OTHER -> <<>>) \o VResults(Tail(stmts))

RECURSIVE VResTypes(_)
VResTypes(stmts) ==
  IF stmts = <<>> THEN <<>>
  ELSE (CASE Head(stmts).s = "emplace_type" -> <<ResultClassName(Head(stmts).name)>>
          [] Head(stmts).s = "emplace_type_empty" -> << <<>> >>
          [] OTHER -> <<>>) \o VResTypes(Tail(stmts))

RECURSIVE VNodes(_)
VNodes(stmts) ==
  IF stmts = <<>> THEN <<>>
  ELSE (IF Head(stmts).s = "push_node" THEN <<Head(stmts).parent>> ELSE <<>>)
       \o VNodes(Tail(stmts))

\* s.find('<'): 0-based, -1 when absent
RECURSIVE Find(_, _, _)
Find(toks, tok, i) ==
  IF i > Len(toks) THEN -1 ELSE IF toks[i] = tok THEN i - 1 ELSE Find(toks, tok, i + 1)

\* str.strip()
RECURSIVE Strip(_)
Strip(toks) ==
  IF toks = <<>> THEN <<>>
  ELSE IF Head(toks) = " " THEN Strip(Tail(toks))
  ELSE IF toks[Len(toks)] = " " THEN Strip(SubSeq(toks, 1, Len(toks) - 1))
  ELSE toks

\* get_result_type: the class names end in the one-character token ">"
ParseError == "Error parsing the result types of RDataFrame workflow"
TypeParses(s) == s = <<>> \/ Find(s, "<", 1) # -1
GetResultType(s) ==
  IF s = <<>> THEN PyStr(<<>>)
  ELSE PyStr(Strip(SubSeq(s, Find(s, "<", 1) + 2, Len(s) - 1)))

Ev(e, slot, n) == [e |-> e, slot |-> slot, n |-> n]

Min(a, b) == IF a < b THEN a ELSE b

\* lines 491-493, from the k-th pair of zip(self._py_actions, v_nodes) on
RECURSIVE ApplyPyActions(_, _, _, _)
ApplyPyActions(rs, py_actions, v_nodes, k) ==
  IF k > Min(Len(py_actions), Len(v_nodes)) THEN rs
  ELSE LET pa == py_actions[k]
           operation == AsNumpyLazyOp(rs.graph[pa.node].operation)
       IN ApplyPyActions(
            [rs EXCEPT !.graph[pa.node].operation = operation,
                       !.results[pa.res_id + 1] = PyActionResult(v_nodes[k], operation),
                       !.trace = Append(@, Ev("apply", pa.res_id, 0))],
            py_actions, v_nodes, k + 1)

\* lines 495-501: RunGraphs(v_results) runs the event loops of the handles
RunGraphs(rs, v_results) ==
  IF v_results = <<>> THEN rs
  ELSE [rs EXCEPT
          !.results = [i \in 1..Len(@) |->
                         IF @[i].h = "RResultHandle" THEN [@[i] EXCEPT !.done = TRUE]
                         ELSE @[i]],
          !.trace = Append(@, Ev("RunGraphs", NoId, Len(v_results)))]

\* lines 505-507
RECURSIVE ReplaceSnapshots(_, _, _)
ReplaceSnapshots(rs, snapshots, k) ==
  IF k > Len(snapshots) THEN rs
  ELSE ReplaceSnapshots(
         [rs EXCEPT
            !.results[snapshots[k].res_id + 1] =
               SnapshotResult(snapshots[k].treename, <<snapshots[k].filename>>),
            !.res_types[snapshots[k].res_id + 1] = PyNone,
            !.trace = Append(@, Ev("snapshot", snapshots[k].res_id, 0))],
         snapshots, k + 1)

\* lines 510-511
RECURSIVE GetValues(_, _, _)
GetValues(rs, py_actions, k) ==
  IF k > Len(py_actions) THEN rs
  ELSE GetValues(
         [rs EXCEPT !.results[py_actions[k].res_id + 1].done = TRUE,
                    !.trace = Append(@, Ev("GetValue", py_actions[k].res_id, 0))],
         py_actions, k + 1)

\* the order of the steps of _run_function after the result lists are built
\* (variant: RunGraphs before the Python-only actions are applied)
ReconcileGraphsFirst(rs, w, v_results, v_nodes) ==
  GetValues(
    ReplaceSnapshots(
      ApplyPyActions(RunGraphs(rs, v_results), w.py_actions, v_nodes, 1),
      w.snapshots, 1),
    w.py_actions, 1)
\* (variant: the loop of GetValue calls is missing)
ReconcileNoGetValue(rs, w, v_results, v_nodes) ==
  ReplaceSnapshots(
    RunGraphs(ApplyPyActions(rs, w.py_actions, v_nodes, 1), v_results),
    w.snapshots, 1)
Reconcile(rs, w, v_results, v_nodes) ==
  GetValues(
    ReplaceSnapshots(
      RunGraphs(ApplyPyActions(rs, w.py_actions, v_nodes, 1), v_results),
      w.snapshots, 1),
    w.py_actions, 1)

\* _run_function of workflow w on the loaded function whose statements are stmts
RunFunction(w, g, wf_id, stmts) ==
  LET v_results == VResults(stmts)
      v_res_types == VResTypes(stmts)
      v_nodes == VNodes(stmts)
      called == [raised |-> FALSE, error |-> "", graph |-> g, results |-> <<>>,
                 res_types |-> <<>>, trace |-> <<Ev("func", wf_id, 0)>>]
  IN IF \E i \in 1..Len(v_res_types) : ~TypeParses(v_res_types[i])
     THEN [called EXCEPT !.raised = TRUE, !.error = ParseError]
     ELSE LET rs == Reconcile(
                      [called EXCEPT
                         !.results = v_results,
                         !.res_types = [i \in 1..Len(v_res_types) |->
                                          GetResultType(v_res_types[i])]],
                      w, v_results, v_nodes)
          IN [rs EXCEPT !.trace = Append(@, Ev("return", NoId, 0))]

\* ------------------------------------------------------------ the actions
\* self.application_code: gathered once per object
ApplicationCode(w) == IF w.code_set THEN w.application_code ELSE GetCode(w.nodes_code)

Threads == {1, 2}
Idle ==
  [pc |-> "idle", w |-> <<>>, code |-> "", this_wf_id |-> NoId, loadedValue |-> 0,
   ret |-> NoId, raised |-> FALSE]

\* the process before any workflow was built
Fresh ==
  /\ graph = graph0
  /\ CACHED_WFS = <<>>
  /\ WfIdCounter = 0
  /\ files = <<>>
  /\ nWrites = 0
  /\ compileLog = <<>>
  /\ loaded = <<>>
  /\ wf = <<>>
  /\ nWorkflows = 0
  /\ cycles = <<>>
  /\ thr = [t \in Threads |-> Idle]
  /\ nStarted = 0
  /\ raced = FALSE

Init == graph0 \in Graphs /\ Fresh

\* CppWorkflow(graph_nodes, starting_node, range_id)
Construct(range_id) ==
  /\ nWorkflows < MaxCycles
  /\ \E st \in {GenerateComputationGraph(graph, range_id)} :
        wf' = <<[range_id |-> range_id, nodes_code |-> st.nodes_code,
                 res_ptr_id |-> st.res_ptr_id, py_actions |-> st.py_actions,
                 snapshots |-> st.snapshots, stmts |-> st.stmts,
                 op_calls |-> st.op_calls,
                 code_set |-> FALSE, application_code |-> ""]>>
  /\ graph' = GraphAfterTranslation(graph, range_id)
  /\ nWorkflows' = nWorkflows + 1
  /\ UNCHANGED <<graph0, CACHED_WFS, WfIdCounter, files, nWrites, compileLog, loaded,
                 cycles, concVars>>

SetProcess(ps) ==
  /\ CACHED_WFS' = ps.cache
  /\ WfIdCounter' = ps.counter
  /\ files' = ps.files
  /\ nWrites' = ps.writes
  /\ compileLog' = ps.log
  /\ loaded' = ps.loaded

\* execute(): _compile, then _run_function
Execute(ok) ==
  /\ wf # <<>>
  /\ Len(cycles) < MaxExec
  /\ \E w \in {wf[1]} :
     \E code \in {ApplicationCode(w)} :
     \E c \in {Compile(ProcessState, w, code, ok)} :
     \E r \in {IF c.raised
               THEN [raised |-> TRUE, error |-> c.error, graph |-> graph,
                     results |-> <<>>, res_types |-> <<>>, trace |-> <<>>]
               ELSE RunFunction(w, graph, c.ret, c.ps.loaded[c.ret])} :
        /\ SetProcess(c.ps)
        /\ wf' = <<[w EXCEPT !.code_set = TRUE, !.application_code = code]>>
        /\ graph' = r.graph
        /\ cycles' = Append(cycles,
             [range_id |-> w.range_id, code |-> code, hit |-> c.hit, wf_id |-> c.ret,
              compiled |-> ~c.raised, writes |-> c.ps.writes - nWrites,
              compiles |-> Len(c.ps.log) - Len(compileLog),
              cache_before |-> CACHED_WFS, counter_before |-> WfIdCounter,
              raised |-> r.raised, error |-> r.error, results |-> r.results,
              res_types |-> r.res_types, trace |-> r.trace,
              py_actions |-> w.py_actions, snapshots |-> w.snapshots])
  /\ UNCHANGED <<graph0, nWorkflows, concVars>>

Next ==
  \/ \E range_id \in RangeIds : Construct(range_id)
  \/ \E ok \in BOOLEAN : Execute(ok)

Spec == Init /\ [][Next]_vars

\* ------------------------------------------- _compile by threaded workers
\* Two threads of one process (the Dask threaded workers of the TODO at line
\* 230) each run cycles; a thread can be preempted between two statements of
\* _compile, and between the load and the store of the counter's increment.
\* What _compile does depends on the graph through its text alone: the
\* threads run the graphs of at most one node.
InitConc == graph0 \in {g \in Graphs : Len(g) <= 1} /\ Fresh

processVars == <<CACHED_WFS, WfIdCounter, files, nWrites, compileLog, loaded>>

\* between a miss in the cache and the end of the counter's increment
Window == {"read_id", "write", "compile", "insert", "load", "store"}

\* CppWorkflow(graph_nodes, starting_node, range_id) in thread t
Start(t, range_id) ==
  /\ thr[t].pc = "idle"
  /\ nStarted < MaxStarts
  /\ \E st \in {GenerateComputationGraph(graph, range_id)} :
        thr' = [thr EXCEPT ![t] = [Idle EXCEPT !.pc = "lookup", !.w = <<st>>,
                                                !.code = GetCode(st.nodes_code)]]
  /\ graph' = GraphAfterTranslation(graph, range_id)
  /\ nStarted' = nStarted + 1
  /\ UNCHANGED <<graph0, processVars, seqVars, raced>>

\* lines 233-238
Lookup(t) ==
  /\ thr[t].pc = "lookup"
  /\ \E cached \in {CacheGet(CACHED_WFS, thr[t].code)} :
        IF cached # NoId
        THEN /\ thr' = [thr EXCEPT ![t].pc = "return", ![t].ret = cached]
             /\ raced' = raced
        ELSE /\ thr' = [thr EXCEPT ![t].pc = "read_id"]
             /\ raced' = (raced \/ \E u \in Threads \ {t} : thr[u].pc \in Window)
  /\ UNCHANGED <<graph0, graph, processVars, seqVars, nStarted>>

\* line 242
ReadId(t) ==
  /\ thr[t].pc = "read_id"
  /\ thr' = [thr EXCEPT ![t].pc = "write", ![t].this_wf_id = WfIdCounter]
  /\ UNCHANGED <<graph0, graph, processVars, seqVars, nStarted, raced>>

\* lines 243-248
Write(t) ==
  /\ thr[t].pc = "write"
  /\ SetProcess(WriteFile(ProcessState, CppFileName(thr[t].this_wf_id),
                          FinalCode(thr[t].w[1].nodes_code, thr[t].this_wf_id),
                          thr[t].w[1].stmts))
  /\ thr' = [thr EXCEPT ![t].pc = "compile"]
  /\ UNCHANGED <<graph0, graph, seqVars, nStarted, raced>>

\* lines 251-252
CompileStep(t, ok) ==
  /\ thr[t].pc = "compile"
  /\ SetProcess(CompileMacro(ProcessState, CppFileName(thr[t].this_wf_id), thr[t].code,
                             thr[t].this_wf_id, ok))
  /\ thr' = [thr EXCEPT ![t].pc = IF ok THEN "insert" ELSE "return",
                        ![t].raised = ~ok]
  /\ UNCHANGED <<graph0, graph, seqVars, nStarted, raced>>

\* line 255
Insert(t) ==
  /\ thr[t].pc = "insert"
  /\ SetProcess(CacheInsert(ProcessState, thr[t].code, thr[t].this_wf_id))
  /\ thr' = [thr EXCEPT ![t].pc = "load"]
  /\ UNCHANGED <<graph0, graph, seqVars, nStarted, raced>>

\* line 256, the load
Load(t) ==
  /\ thr[t].pc = "load"
  /\ thr' = [thr EXCEPT ![t].pc = "store", ![t].loadedValue = WfIdCounter]
  /\ UNCHANGED <<graph0, graph, processVars, seqVars, nStarted, raced>>

\* line 256, the store; line 258
Store(t) ==
  /\ thr[t].pc = "store"
  /\ SetProcess(StoreCounter(ProcessState, thr[t].loadedValue))
  /\ thr' = [thr EXCEPT ![t].pc = "return", ![t].ret = thr[t].this_wf_id]
  /\ UNCHANGED <<graph0, graph, seqVars, nStarted, raced>>

\* _compile returned or raised: the thread is free for its next cycle
Return(t) ==
  /\ thr[t].pc = "return"
  /\ thr' = [thr EXCEPT ![t] = Idle]
  /\ UNCHANGED <<graph0, graph, processVars, seqVars, nStarted, raced>>

NextConc ==
  \/ \E t \in Threads, range_id \in RangeIds : Start(t, range_id)
  \/ \E t \in Threads : Lookup(t)
  \/ \E t \in Threads : ReadId(t)
  \/ \E t \in Threads : Write(t)
  \/ \E t \in Threads, ok \in BOOLEAN : CompileStep(t, ok)
  \/ \E t \in Threads : Insert(t)
  \/ \E t \in Threads : Load(t)
  \/ \E t \in Threads : Store(t)
  \/ \E t \in Threads : Return(t)

SpecConc == InitConc /\ [][NextConc]_vars

\* ------------------------------------------------------------ the claims
Cycles == 1..Len(cycles)
Calls == 1..Len(compileLog)

\* C1 as stated: any two cycles whose generated source text is equal obtain
\* the same workflow id from _compile, CompileMacro is invoked at most once
\* for that text, and a cache hit writes no file and invokes no compiler.
C1_AtMostOneCompilePerText ==
  /\ \A i, j \in Cycles :
       cycles[i].code = cycles[j].code => cycles[i].wf_id = cycles[j].wf_id
  /\ \A a, b \in Calls : compileLog[a].code = compileLog[b].code => a = b
  /\ \A i \in Cycles : cycles[i].hit => cycles[i].writes = 0 /\ cycles[i].compiles = 0

\* C1 amended: any two cycles whose _compile returned and whose source text
\* is equal obtain the same workflow id; CompileMacro succeeds at most once
\* for a text and is never invoked again for a text after it succeeded (a
\* failed compile is not cached, so a later cycle compiles the text again);
\* a cache hit returns the stored id, writes no file and invokes no compiler.
C1_AtMostOneSuccessfulCompilePerText ==
  /\ \A i, j \in Cycles :
       (cycles[i].compiled /\ cycles[j].compiled /\ cycles[i].code = cycles[j].code)
         => cycles[i].wf_id = cycles[j].wf_id
  /\ \A a, b \in Calls :
       (a < b /\ compileLog[a].code = compileLog[b].code) => ~compileLog[a].ok
  /\ \A i \in Cycles :
       cycles[i].hit => /\ cycles[i].writes = 0
                        /\ cycles[i].compiles = 0
                        /\ cycles[i].wf_id = cycles[i].cache_before[cycles[i].code]
  /\ \A i \in Cycles :
       (cycles[i].code \in DOMAIN cycles[i].cache_before) => cycles[i].hit

\* two cycles of different partitions with equal text: a compile, then a hit
C1_Witness ==
  \E i, j \in Cycles :
    /\ i < j
    /\ cycles[i].range_id # cycles[j].range_id
    /\ cycles[i].code = cycles[j].code
    /\ ~cycles[i].hit /\ cycles[i].compiled
    /\ cycles[j].hit /\ cycles[j].wf_id = cycles[i].wf_id
    /\ Len(compileLog) = 1

\* the nodes of g that are actions (Action, Snapshot, AsNumpy), in insertion order
RECURSIVE NodesOfKinds(_, _, _)
NodesOfKinds(g, kinds, i) ==
  IF i > Len(g) THEN <<>>
  ELSE (IF g[i].operation.kind \in kinds THEN <<i>> ELSE <<>>) \o NodesOfKinds(g, kinds, i + 1)

ActionNodes == NodesOfKinds(graph0, {"Action", "Snapshot", "AsNumpy"}, 1)
SnapshotNodes == NodesOfKinds(graph0, {"Snapshot"}, 1)
AsNumpyNodes == NodesOfKinds(graph0, {"AsNumpy"}, 1)
Returned == {c \in Cycles : ~cycles[c].raised}

C2_StrippedType(name) ==
  CASE name = "Sum" -> <<"double">>
    [] name = "Histo1D" -> <<"TH1D">>

\* C2: the lists execute returns have one slot per action node of the graph
\* (Action, Snapshot, AsNumpy), slot i belonging to the i-th such node in
\* insertion order: a Snapshot's slot holds its output descriptor with a null
\* type, an AsNumpy's slot holds the result of applying it to its parent node
\* with an empty type, any other action's slot holds the native handle of its
\* node with the stripped type name; transformations take no slot.
C2_SlotAlignment ==
  \A c \in Returned :
    LET r == cycles[c]
    IN /\ Len(r.results) = Len(ActionNodes)
       /\ Len(r.res_types) = Len(ActionNodes)
       /\ \A i \in 1..Len(ActionNodes) :
            LET k == ActionNodes[i]
                op == graph0[k].operation
            IN CASE op.kind = "Snapshot" ->
                      /\ r.results[i].h = "SnapshotResult"
                      /\ r.results[i].tree = op.args[1]
                      /\ r.results[i].paths = <<PyStr(PathWithRange(op.args[2], r.range_id))>>
                      /\ r.res_types[i] = PyNone
                 [] op.kind = "AsNumpy" ->
                      /\ r.results[i].h = "PyResult"
                      /\ r.results[i].node = graph0[k].parent_id
                      /\ r.results[i].op.name = op.name
                      /\ r.results[i].op.args = op.args
                      /\ r.res_types[i] = PyStr(<<>>)
                 [] OTHER ->
                      /\ r.results[i].h = "RResultHandle"
                      /\ r.results[i].node = k
                      /\ r.res_types[i] = PyStr(C2_StrippedType(op.name))

\* an execute returned for a graph AsNumpy, Snapshot: two slots, in that order
C2_Witness ==
  \E c \in Returned :
    /\ Len(cycles[c].results) = 2
    /\ cycles[c].results[1].h = "PyResult"
    /\ cycles[c].results[2].h = "SnapshotResult"
    /\ cycles[c].res_types = <<PyStr(<<>>), PyNone>>

\* C3: for a requested path "<stem>.root" the Snapshot policy produces
\* "<stem>_<P>.root", that path is the one recorded for the Snapshot's result
\* slot, and two partition ids give two different paths.
C3_PathKeepsStem ==
  /\ \A c \in Returned : \A j \in 1..Len(SnapshotNodes) :
       LET r == cycles[c]
           p == graph0[SnapshotNodes[j]].operation.args[2].s
           stem == SubSeq(p, 1, Len(p) - 1)
       IN (p # <<>> /\ p[Len(p)] = ".root") =>
            /\ Join(r.snapshots[j].filename.s)
                 = Join(stem) \o "_" \o ToStr(r.range_id) \o ".root"
            /\ r.results[r.snapshots[j].res_id + 1].paths = <<r.snapshots[j].filename>>
  /\ \A c, d \in Returned : \A j \in 1..Len(SnapshotNodes) :
       cycles[c].range_id # cycles[d].range_id =>
         Join(cycles[c].snapshots[j].filename.s) # Join(cycles[d].snapshots[j].filename.s)

\* C4: the operation descriptors held by the graph are never mutated.
C4_DescriptorsNeverMutated == graph = graph0

\* C5: translating the graph with the same partition id twice gives the same
\* text, hence the same cache entry; translating a graph with a Snapshot
\* under two partition ids gives two texts, hence two cache entries.
C5_TextDeterminedByGraphAndPartition ==
  /\ \A c, d \in Cycles :
       cycles[c].range_id = cycles[d].range_id =>
         /\ cycles[c].code = cycles[d].code
         /\ (cycles[c].compiled /\ cycles[d].compiled) => cycles[c].wf_id = cycles[d].wf_id
  /\ \A c \in Cycles :
       (wf # <<>> /\ wf[1].range_id = cycles[c].range_id) =>
         GetCode(wf[1].nodes_code) = cycles[c].code
  /\ \A c, d \in Cycles :
       (SnapshotNodes # <<>> /\ cycles[c].range_id # cycles[d].range_id) =>
         /\ cycles[c].code # cycles[d].code
         /\ (cycles[c].compiled /\ cycles[d].compiled) =>
              /\ cycles[c].wf_id # cycles[d].wf_id
              /\ CACHED_WFS[cycles[c].code] # CACHED_WFS[cycles[d].code]
  /\ Cardinality(DOMAIN CACHED_WFS) <= Cardinality({cycles[c].range_id : c \in Cycles})

\* a graph with a Snapshot and an AsNumpy ran under two partition ids: two
\* texts, two cache entries; and the live workflow's text is the second one
C5_Witness ==
  /\ SnapshotNodes # <<>>
  /\ AsNumpyNodes # <<>>
  /\ Len(cycles) = 2
  /\ cycles[1].range_id # cycles[2].range_id
  /\ cycles[1].compiled /\ cycles[2].compiled
  /\ cycles[1].code # cycles[2].code
  /\ Cardinality(DOMAIN CACHED_WFS) = 2

\* the cache and the counter as the cycle after c found them, or as they are
CacheAfter(c) == IF c < Len(cycles) THEN cycles[c + 1].cache_before ELSE CACHED_WFS
CounterAfter(c) == IF c < Len(cycles) THEN cycles[c + 1].counter_before ELSE WfIdCounter

\* C6: when the compiler rejects the source, execute raises an error that
\* names the source file it wrote, returns no results, never calls the
\* workflow function, and leaves the cache and the id counter as they were.
C6_CompileFailureIsFatal ==
  \A c \in Cycles :
    ~cycles[c].compiled =>
      LET r == cycles[c]
          name == CppFileName(r.counter_before)
      IN /\ r.raised
         /\ r.error = CompileError(name)
         /\ name \in DOMAIN files
         /\ r.writes = 1 /\ r.compiles = 1
         /\ \E a \in Calls : compileLog[a].file = name /\ compileLog[a].code = r.code
                             /\ ~compileLog[a].ok
         /\ r.results = <<>> /\ r.res_types = <<>>
         /\ r.trace = <<>>
         /\ CacheAfter(c) = r.cache_before
         /\ CounterAfter(c) = r.counter_before
         /\ r.code \notin DOMAIN CacheAfter(c)

\* a compile failed, and the next cycle compiled the same text under the same id
C6_Witness ==
  /\ Len(cycles) = 2
  /\ ~cycles[1].compiled /\ cycles[2].compiled /\ ~cycles[2].hit
  /\ cycles[1].code = cycles[2].code
  /\ cycles[2].wf_id = cycles[1].counter_before
  /\ cycles[2].results # <<>>

\* the positions of the events e on slot in the trace of cycle c
Positions(c, e, slot) ==
  {i \in 1..Len(cycles[c].trace) : cycles[c].trace[i].e = e /\ cycles[c].trace[i].slot = slot}
EventsOf(c, e) == {i \in 1..Len(cycles[c].trace) : cycles[c].trace[i].e = e}

\* C7: for each Python-only action registered at translation time, its result
\* is stored into its slot, GetValue is then called on the object in that
\* slot, and only then does execute return: the slot handed to the caller
\* holds the materialized result of the action.
C7_MaterializedBeforeReturn ==
  \A c \in Returned :
    LET r == cycles[c]
    IN /\ Len(r.py_actions) = Len(AsNumpyNodes)
       /\ \A k \in 1..Len(r.py_actions) :
            LET slot == r.py_actions[k].res_id
            IN /\ Cardinality(Positions(c, "apply", slot)) = 1
               /\ Cardinality(Positions(c, "GetValue", slot)) = 1
               /\ \A a \in Positions(c, "apply", slot) :
                  \A g \in Positions(c, "GetValue", slot) :
                  \A x \in EventsOf(c, "return") : a < g /\ g < x
               /\ Positions(c, "snapshot", slot) = {}
               /\ r.results[slot + 1].h = "PyResult"
               /\ r.results[slot + 1].done

\* an execute returned two materialized AsNumpy results
C7_Witness ==
  \E c \in Returned :
    /\ Len(cycles[c].py_actions) = 2
    /\ cycles[c].results[1].done /\ cycles[c].results[2].done
    /\ Cardinality(EventsOf(c, "GetValue")) = 2

\* C8 as stated: the batched evaluation is triggered at most once, as one
\* call over all handles, and completes before any Python-only action is
\* re-applied; re-application precedes the Snapshot substitution, which
\* precedes the forced materialization.
C8_EvaluationBeforeReapply ==
  \A c \in Returned :
    /\ Cardinality(EventsOf(c, "RunGraphs")) <= 1
    /\ \A g \in EventsOf(c, "RunGraphs") : \A a \in EventsOf(c, "apply") : g < a
    /\ \A a \in EventsOf(c, "apply") : \A x \in EventsOf(c, "snapshot") : a < x
    /\ \A x \in EventsOf(c, "snapshot") : \A v \in EventsOf(c, "GetValue") : x < v

\* C8 amended: the batched evaluation is triggered at most once, as one call
\* over the whole vector of result handles, and it runs after every
\* Python-only action has been re-applied to its carried-over node (step 5
\* before step 4); it precedes the Snapshot substitution (step 6), which
\* precedes the forced materialization (step 7), which precedes the return.
C8_ReapplyBeforeEvaluation ==
  \A c \in Returned :
    /\ Cardinality(EventsOf(c, "RunGraphs")) = (IF ActionNodes = <<>> THEN 0 ELSE 1)
    /\ \A g \in EventsOf(c, "RunGraphs") : cycles[c].trace[g].n = Len(ActionNodes)
    /\ Cardinality(EventsOf(c, "apply")) = Len(AsNumpyNodes)
    /\ Cardinality(EventsOf(c, "snapshot")) = Len(SnapshotNodes)
    /\ \A f \in EventsOf(c, "func") : f = 1
    /\ \A a \in EventsOf(c, "apply") : \A g \in EventsOf(c, "RunGraphs") : a < g
    /\ \A g \in EventsOf(c, "RunGraphs") : \A x \in EventsOf(c, "snapshot") : g < x
    /\ \A a \in EventsOf(c, "apply") : \A x \in EventsOf(c, "snapshot") : a < x
    /\ \A x \in EventsOf(c, "snapshot") : \A v \in EventsOf(c, "GetValue") : x < v
    /\ \A g \in EventsOf(c, "RunGraphs") : \A v \in EventsOf(c, "GetValue") : g < v
    /\ \A v \in EventsOf(c, "GetValue") : \A x \in EventsOf(c, "return") : v < x
    /\ \A i \in 1..Len(cycles[c].results) :
         cycles[c].results[i].h = "RResultHandle" => cycles[c].results[i].done

\* an execute over an AsNumpy and a Snapshot: apply, RunGraphs, snapshot, GetValue
C8_Witness ==
  \E c \in Returned :
    /\ Len(cycles[c].trace) = 6
    /\ cycles[c].trace[2].e = "apply"
    /\ cycles[c].trace[3].e = "RunGraphs"
    /\ cycles[c].trace[4].e = "snapshot"
    /\ cycles[c].trace[5].e = "GetValue"
    /\ cycles[c].trace[6].e = "return"

\* the rendering C9 states: a str is quoted, a tuple is brace-initialized
\* with its str elements quoted, lazy_options is bare, any other scalar is
\* written as its literal
C9_Rendered(arg) ==
  IF arg.t = "str" /\ Join(arg.s) = "lazy_options" THEN "lazy_options"
  ELSE IF arg.t = "str" THEN "\"" \o Join(arg.s) \o "\""
  ELSE IF arg.t = "tuple" THEN "{" \o TupleElems(arg.e, 1) \o "}"
  ELSE ToStr(arg.n)

RECURSIVE C9_RenderedFrom(_, _)
C9_RenderedFrom(args, narg) ==
  IF narg > Len(args) THEN ""
  ELSE (IF narg > 1 THEN ", " ELSE "") \o C9_Rendered(args[narg])
       \o C9_RenderedFrom(args, narg + 1)

RenderedNodes == NodesOfKinds(graph0, {"Operation", "Action", "Snapshot"}, 1)

\* C9: the call emitted for a node holds one non-empty rendered item per
\* positional argument, in order and comma-separated.
C9_EveryArgumentRendered ==
  wf # <<>> =>
    /\ Len(wf[1].op_calls) = Len(RenderedNodes)
    /\ \A j \in 1..Len(RenderedNodes) :
         LET node == graph0[RenderedNodes[j]]
             op == CreateLazyOpIfNeeded(node.operation, wf[1].range_id).ret
         IN /\ wf[1].op_calls[j] = "node" \o ToStr(node.parent_id) \o "." \o op.name
                                    \o "(" \o C9_RenderedFrom(op.args, 1) \o ")"
            /\ \A narg \in 1..Len(op.args) : ArgText(op.args[narg]) # ""

\* the same text was compiled and loaded more than once
CompiledTwice ==
  \E a, b \in Calls :
    a < b /\ compileLog[a].ok /\ compileLog[b].ok /\ compileLog[a].code = compileLog[b].code

\* two different texts were compiled under the same workflow id
SharedId ==
  \E a, b \in Calls :
    /\ compileLog[a].ok /\ compileLog[b].ok
    /\ compileLog[a].code # compileLog[b].code
    /\ compileLog[a].wf_id = compileLog[b].wf_id

OkCalls == SelectSeq(compileLog, LAMBDA call : call.ok)

\* the name of the function a compiled workflow defines
EntryPointName(wf_id) == FUNCTION_NAME \o ToStr(wf_id)

\* what cycle c did to the cache: nothing removed, nothing changed, and at
\* most one entry added, under the first unused id
C11_CycleAppends(c) ==
  LET before == cycles[c].cache_before
      after == CacheAfter(c)
      added == DOMAIN after \ DOMAIN before
  IN /\ \A code \in DOMAIN before : code \in DOMAIN after /\ after[code] = before[code]
     /\ Cardinality(added) <= 1
     /\ \A code \in added : code = cycles[c].code /\ after[code] = Cardinality(DOMAIN before)
     /\ (cycles[c].hit \/ cycles[c].raised) => added = {}
     /\ CounterAfter(c) = Cardinality(DOMAIN after)

\* C11: under sequential _compile calls the cache is append-only and
\* injective.  No cycle removes or changes an entry; distinct cached texts
\* have distinct ids; the ids are exactly 0..n-1 in the order the texts were
\* inserted (the k-th successful compile got id k-1); _WF_ID_COUNTER equals
\* the number of entries; hence the entry-point names of the loaded
\* functions are pairwise different.
C11_CacheAppendOnlyInjective ==
  /\ \A c \in Cycles : C11_CycleAppends(c)
  /\ \A a, b \in DOMAIN CACHED_WFS : a # b => CACHED_WFS[a] # CACHED_WFS[b]
  /\ {CACHED_WFS[code] : code \in DOMAIN CACHED_WFS}
       = 0..(Cardinality(DOMAIN CACHED_WFS) - 1)
  /\ Len(OkCalls) = Cardinality(DOMAIN CACHED_WFS)
  /\ \A k \in 1..Len(OkCalls) :
       /\ OkCalls[k].wf_id = k - 1
       /\ OkCalls[k].code \in DOMAIN CACHED_WFS
       /\ CACHED_WFS[OkCalls[k].code] = k - 1
  /\ WfIdCounter = Cardinality(DOMAIN CACHED_WFS)
  /\ DOMAIN loaded = 0..(WfIdCounter - 1)
  /\ \A j, k \in 1..Len(OkCalls) :
       j # k => EntryPointName(OkCalls[j].wf_id) # EntryPointName(OkCalls[k].wf_id)

\* two texts were compiled one after the other and cached under ids 0 and 1,
\* the second one while the entry of the first was already in the cache
C11_Witness ==
  /\ Len(cycles) = 2
  /\ ~cycles[1].raised /\ ~cycles[1].hit /\ cycles[1].wf_id = 0
  /\ ~cycles[2].raised /\ ~cycles[2].hit /\ cycles[2].wf_id = 1
  /\ cycles[1].code # cycles[2].code
  /\ cycles[2].cache_before = (cycles[1].code :> 0)
  /\ Cardinality(DOMAIN CACHED_WFS) = 2
  /\ WfIdCounter = 2

====
